---- MODULE Spec2Model ----
(***************************************************************************)
(* MovieLog: the Movie entity, the MovieLibrary catalog with its CSV       *)
(* load/save, and the MovieLogApp handlers that mutate and persist it.     *)
(* Source: src/src/movie_tracker/movie_tracker.py                          *)
(*                                                                         *)
(* Text is a sequence of one-character strings, so that formatting and     *)
(* parsing are computed character by character.  A Python value is a       *)
(* record [t, s, n]: t its type, s its text (str), n its number (int,      *)
(* bool as 0/1, float in tenths).                                          *)
(***************************************************************************)
EXTENDS Integers, Sequences, FiniteSets, TLC

VARIABLES
    movies,      \* MovieLibrary.__movies
    unwatched,   \* MovieLibrary.__unwatched_movies
    file,        \* the persisted file movies.csv
    tree,        \* MovieLogApp.tree: the title cell of each displayed row
    ent,         \* a Movie object held by a caller outside any library
    handle,      \* the caller's reference from get_all_movies(): none, alias, stale
    built,       \* TRUE while the library was changed by add and delete only
    saved,       \* the entries written by the latest save_to_csv
    last         \* the latest operation: its name, outcome and pre-state

vars == <<movies, unwatched, file, tree, ent, handle, built, saved, last>>

---------------------------------------------------------------------------
(* Bounds of the model *)

\* The main collection never grows beyond this many entries.
MaxMovies == 2

(* Program constants *)

RatingMin == 0
RatingMax == 10
DefaultYear == 2000

---------------------------------------------------------------------------
(* Text *)

Digits == <<"0", "1", "2", "3", "4", "5", "6", "7", "8", "9">>

UpperLetters == <<"A", "B", "C", "D", "E", "F", "G", "H", "I", "J", "K", "L", "M",
                  "N", "O", "P", "Q", "R", "S", "T", "U", "V", "W", "X", "Y", "Z">>

LowerLetters == <<"a", "b", "c", "d", "e", "f", "g", "h", "i", "j", "k", "l", "m",
                  "n", "o", "p", "q", "r", "s", "t", "u", "v", "w", "x", "y", "z">>

IsDigit(c) == \E i \in 1..10 : Digits[i] = c

DigitVal(c) == (CHOOSE i \in 1..10 : Digits[i] = c) - 1

\* str.lower() on one character.
LowerChar(c) ==
    IF \E i \in 1..26 : UpperLetters[i] = c
    THEN LowerLetters[CHOOSE i \in 1..26 : UpperLetters[i] = c]
    ELSE c

\* str.lower()
Lower(s) == [i \in 1..Len(s) |-> LowerChar(s[i])]

IsDigits(s) == Len(s) > 0 /\ \A i \in 1..Len(s) : IsDigit(s[i])

RECURSIVE NatOf(_)
NatOf(s) == IF s = <<>> THEN 0 ELSE 10 * NatOf(SubSeq(s, 1, Len(s) - 1)) + DigitVal(s[Len(s)])

RECURSIVE NatText(_)
NatText(n) == IF n < 10 THEN <<Digits[n + 1]>> ELSE NatText(n \div 10) \o <<Digits[(n % 10) + 1]>>

Unsigned(s) == IF s # <<>> /\ s[1] = "-" THEN Tail(s) ELSE s

IsNegative(s) == s # <<>> /\ s[1] = "-"

\* int(text) succeeds: an optional sign and decimal digits.
IntOk(s) == IsDigits(Unsigned(s))

\* int(text)
IntOf(s) == IF IsNegative(s) THEN 0 - NatOf(Unsigned(s)) ELSE NatOf(s)

\* str(n) of an int
IntText(n) == IF n < 0 THEN <<"-">> \o NatText(0 - n) ELSE NatText(n)

NanText == <<"n", "a", "n">>

\* A decimal literal with one fractional digit: digits "." digit.
IsDecimal(s) ==
    /\ Len(s) >= 3
    /\ s[Len(s) - 1] = "."
    /\ IsDigit(s[Len(s)])
    /\ IsDigits(SubSeq(s, 1, Len(s) - 2))

\* float(text) succeeds: an int literal, a decimal literal, or nan.
FloatOk(s) == IntOk(s) \/ IsDecimal(Unsigned(s)) \/ s = NanText

\* float(text) of a numeric literal, in tenths.
TenthsOf(s) ==
    LET u == Unsigned(s)
        mag == IF IsDecimal(u)
               THEN 10 * NatOf(SubSeq(u, 1, Len(u) - 2)) + DigitVal(u[Len(u)])
               ELSE 10 * NatOf(u)
    IN  IF IsNegative(s) THEN 0 - mag ELSE mag

\* repr(x) of a float given in tenths.
FloatText(n) ==
    LET mag == IF n < 0 THEN 0 - n ELSE n
        txt == NatText(mag \div 10) \o <<".", Digits[(mag % 10) + 1]>>
    IN  IF n < 0 THEN <<"-">> \o txt ELSE txt

TrueText == <<"T", "r", "u", "e">>
FalseText == <<"F", "a", "l", "s", "e">>

---------------------------------------------------------------------------
(* Python values *)

PyStr(s) == [t |-> "str", s |-> s, n |-> 0]
PyInt(n) == [t |-> "int", s |-> <<>>, n |-> n]
PyFloat(n) == [t |-> "float", s |-> <<>>, n |-> n]
PyBool(b) == [t |-> "bool", s |-> <<>>, n |-> IF b THEN 1 ELSE 0]
PyNaN == [t |-> "nan", s |-> <<>>, n |-> 0]
PyNone == [t |-> "none", s |-> <<>>, n |-> 0]

\* bool(v)
Truthy(v) ==
    CASE v.t = "str" -> v.s # <<>>
      [] v.t = "nan" -> TRUE
      [] v.t = "none" -> FALSE
      [] OTHER -> v.n # 0

\* pd.isnull(v)
IsNull(v) == v.t \in {"nan", "none"}

\* str(v)
StrOf(v) ==
    CASE v.t = "str" -> v.s
      [] v.t = "int" -> IntText(v.n)
      [] v.t = "float" -> FloatText(v.n)
      [] v.t = "bool" -> IF v.n = 1 THEN TrueText ELSE FalseText
      [] v.t = "nan" -> NanText
      [] OTHER -> <<"N", "o", "n", "e">>

\* int(v) raises ValueError
IntRaises(v) ==
    CASE v.t = "str" -> ~IntOk(v.s)
      [] v.t = "nan" -> TRUE
      [] v.t = "none" -> TRUE
      [] OTHER -> FALSE

\* int(v): a float is truncated toward zero.
IntValue(v) ==
    CASE v.t = "str" -> IntOf(v.s)
      [] v.t = "float" -> IF v.n < 0 THEN 0 - ((0 - v.n) \div 10) ELSE v.n \div 10
      [] OTHER -> v.n

\* float(v) raises ValueError
FloatRaises(v) ==
    CASE v.t = "str" -> ~FloatOk(v.s)
      [] v.t = "none" -> TRUE
      [] OTHER -> FALSE

\* float(v)
FloatValue(v) ==
    CASE v.t = "str" -> IF v.s = NanText THEN PyNaN ELSE PyFloat(TenthsOf(v.s))
      [] v.t = "float" -> v
      [] v.t = "nan" -> v
      [] OTHER -> PyFloat(10 * v.n)

\* value < bound and value > bound on a rating; every comparison with nan is false.
IsNumber(v) == v.t \in {"int", "float", "bool"}
Tenths(v) == IF v.t = "float" THEN v.n ELSE 10 * v.n
Below(v, bound) == IsNumber(v) /\ Tenths(v) < 10 * bound
Above(v, bound) == IsNumber(v) /\ Tenths(v) > 10 * bound

---------------------------------------------------------------------------
(* Media and Movie *)

\* Media.title setter: raises ValueError when "not value".
TitleRaises(value) == ~Truthy(value)

\* Movie.__init__: the title goes through its setter (it may raise ValueError); the
\* year is stored by its setter unchecked; genre, watched and rating are stored
\* directly in the private attributes.
MovieInit(title, year, genre, watched, rating) ==
    [raised |-> TitleRaises(title),
     movie  |-> [title |-> title, year |-> year, genre |-> genre,
                 watched |-> watched, rating |-> rating]]

UnknownText == <<"U", "n", "k", "n", "o", "w", "n">>

\* Movie.genre setter: value or "Unknown"
GenreSet(m, value) ==
    [m EXCEPT !.genre = IF Truthy(value) THEN value ELSE PyStr(UnknownText)]

\* Movie.watched setter: bool(value)
WatchedSet(m, value) == [m EXCEPT !.watched = Truthy(value)]

\* Media.title setter
TitleSet(m, value) ==
    [raised |-> TitleRaises(value),
     movie  |-> IF TitleRaises(value) THEN m ELSE [m EXCEPT !.title = value]]

\* Movie.rating setter raises: value is not None and not (0 <= value <= 10)
RatingRaises(value) ==
    /\ value.t # "none"
    /\ ~(IsNumber(value) /\ 10 * RatingMin <= Tenths(value) /\ Tenths(value) <= 10 * RatingMax)

\* Movie.rating setter
RatingSet(m, value) ==
    [raised |-> RatingRaises(value),
     movie  |-> IF RatingRaises(value) THEN m ELSE [m EXCEPT !.rating = value]]

---------------------------------------------------------------------------
(* MovieLibrary: the two lists *)

\* MovieLibrary.__build_unwatched_list
BuildUnwatched(ms) == SelectSeq(ms, LAMBDA m : ~m.watched)

\* add_movie without the rebuild of the unwatched list.
AddMovieNoRebuild(lib, m) ==
    [movies |-> Append(lib.movies, m), unwatched |-> lib.unwatched]

\* MovieLibrary.add_movie, on the pair of lists
AddMovieTo(lib, m) ==
    [movies    |-> Append(lib.movies, m),
     unwatched |-> BuildUnwatched(Append(lib.movies, m))]

\* m.title.lower() != title_to_delete.lower()
KeepOnDelete(m, t) == Lower(m.title.s) # Lower(t.s)

\* MovieLibrary.delete_movie_by_title: .lower() raises AttributeError on a value
\* that is no str, before __movies is rebound.
DeleteMovieByTitle(lib, t) ==
    LET bad  == (lib.movies # <<>> /\ t.t # "str")
                  \/ \E i \in 1..Len(lib.movies) : lib.movies[i].title.t # "str"
        kept == SelectSeq(lib.movies, LAMBDA m : KeepOnDelete(m, t))
    IN  IF bad
        THEN [raised |-> TRUE, ret |-> 0, movies |-> lib.movies, unwatched |-> lib.unwatched]
        ELSE [raised |-> FALSE, ret |-> Len(lib.movies) - Len(kept),
              movies |-> kept, unwatched |-> BuildUnwatched(kept)]

\* The test of ensure_valid_ratings with "and" for "or".
RatingInvalidAnd(m) ==
    m.rating.t # "none" /\ (Below(m.rating, RatingMin) /\ Above(m.rating, RatingMax))

\* The test of ensure_valid_ratings on one movie.
RatingInvalid(m) ==
    m.rating.t # "none" /\ (Below(m.rating, RatingMin) \/ Above(m.rating, RatingMax))

\* The while loop of ensure_valid_ratings from index i (1-based here) on.
RECURSIVE EnsureFrom(_, _)
EnsureFrom(ms, i) ==
    IF ~(i <= Len(ms)) THEN ms
    ELSE EnsureFrom(IF RatingInvalid(ms[i])
                    THEN [ms EXCEPT ![i] = RatingSet(ms[i], PyNone).movie]
                    ELSE ms,
                    i + 1)

\* MovieLibrary.ensure_valid_ratings
EnsureValidRatings(ms) == EnsureFrom(ms, 1)

---------------------------------------------------------------------------
(* The CSV file: pandas DataFrame.to_csv and pandas.read_csv *)

ColumnNames == {"Title", "Year", "Genre", "Watched", "Rating"}

NoFile == [exists |-> FALSE, cols |-> {}, rows |-> <<>>]

\* The value of movie m in the column named c, as save_to_csv puts it in the dict.
FieldOf(m, c) ==
    CASE c = "Title" -> m.title
      [] c = "Year" -> PyInt(m.year)
      [] c = "Genre" -> m.genre
      [] c = "Watched" -> PyBool(m.watched)
      [] OTHER -> m.rating

\* DataFrame(data) makes a column of ints and missing values or floats a float column.
Promoted(vals) ==
    /\ \A i \in 1..Len(vals) : vals[i].t \in {"int", "float", "nan", "none"}
    /\ \E i \in 1..Len(vals) : vals[i].t \in {"float", "nan", "none"}

\* to_csv writes a missing value as an empty cell and any other value as its text.
CellText(v, promoted) ==
    CASE IsNull(v) -> <<>>
      [] v.t = "int" /\ promoted -> FloatText(10 * v.n)
      [] OTHER -> StrOf(v)

ColumnOf(ms, c) == [i \in 1..Len(ms) |-> FieldOf(ms[i], c)]

\* MovieLibrary.save_to_csv: the file written for the list ms.  An empty list
\* makes a frame without columns: the file has no header and no row.
SaveToCsv(ms) ==
    IF ms = <<>> THEN [exists |-> TRUE, cols |-> {}, rows |-> <<>>]
    ELSE [exists |-> TRUE, cols |-> ColumnNames,
          rows |-> [i \in 1..Len(ms) |->
                      [c \in ColumnNames |->
                          CellText(FieldOf(ms[i], c), Promoted(ColumnOf(ms, c)))]]]

\* Cells read_csv takes for a missing value.
NAStrings == {<<>>, NanText, <<"N", "A">>}

IsBoolText(s) == s \in {TrueText, FalseText}

\* read_csv's type inference on one column of cells.
ReadColumn(cells) ==
    LET n      == Len(cells)
        given  == {i \in 1..n : cells[i] \notin NAStrings}
        allInt == \A i \in given : IntOk(cells[i])
        allNum == \A i \in given : FloatOk(cells[i])
        allBool == \A i \in given : IsBoolText(cells[i])
    IN  [i \in 1..n |->
            IF i \notin given THEN PyNaN
            ELSE IF allInt /\ given = 1..n THEN PyInt(IntOf(cells[i]))
            ELSE IF allNum THEN PyFloat(TenthsOf(cells[i]))
            ELSE IF allBool THEN PyBool(cells[i] = TrueText)
            ELSE PyStr(cells[i])]

\* pd.read_csv(filename): each column of the file with its inferred values.
ReadCsv(f) ==
    [cols |-> f.cols, n |-> Len(f.rows),
     val  |-> [c \in ColumnNames |->
                 ReadColumn([i \in 1..Len(f.rows) |-> f.rows[i][c]])]]

\* row.get(c, default)
RowGet(df, i, c, default) == IF c \in df.cols THEN df.val[c][i] ELSE default

\* The for loop of load_from_csv from row i on: int(...) and float(...) raise
\* ValueError outside the try, which ends the loop and the call.
RECURSIVE LoadFrom(_, _, _)
LoadFrom(df, i, lib) ==
    IF i > df.n THEN [raised |-> FALSE, movies |-> lib.movies, unwatched |-> lib.unwatched]
    ELSE
      LET title  == RowGet(df, i, "Title", PyStr(<<>>))
          yearv  == RowGet(df, i, "Year", PyInt(DefaultYear))
          genre  == RowGet(df, i, "Genre", PyStr(<<>>))
          watchd == Truthy(RowGet(df, i, "Watched", PyBool(FALSE)))
          ratngv == RowGet(df, i, "Rating", PyNone)
      IN  IF IntRaises(yearv) \/ (~IsNull(ratngv) /\ FloatRaises(ratngv))
          THEN [raised |-> TRUE, movies |-> lib.movies, unwatched |-> lib.unwatched]
          ELSE
            LET rating == IF IsNull(ratngv) THEN PyNone ELSE FloatValue(ratngv)
                made   == MovieInit(title, IntValue(yearv), genre, watchd, rating)
            IN  IF made.raised
                THEN LoadFrom(df, i + 1, lib)
                ELSE LoadFrom(df, i + 1, AddMovieTo(lib, made.movie))

\* MovieLibrary.load_from_csv: a missing file is reported and nothing is loaded;
\* a file without a header line makes read_csv raise EmptyDataError, which is
\* not caught.
LoadFromCsv(f, lib) ==
    IF ~f.exists
    THEN [raised |-> FALSE, movies |-> lib.movies, unwatched |-> lib.unwatched]
    ELSE IF f.cols = {}
    THEN [raised |-> TRUE, movies |-> lib.movies, unwatched |-> lib.unwatched]
    ELSE LoadFrom(ReadCsv(f), 1, lib)

---------------------------------------------------------------------------
(* Inputs *)

Up == <<"U", "p">>
UpLower == <<"u", "p">>
UpUpper == <<"U", "P">>
Seven == <<"7">>
Heat == <<"H", "e", "a", "t">>
SciFi == <<"S", "F">>
Y1999 == <<"1", "9", "9", "9">>
Y2009 == <<"2", "0", "0", "9">>

\* Arguments of Movie(title, year, genre, watched, rating) a caller of the
\* library passes.
CtorArgs ==
    { [title |-> PyStr(Up), year |-> 1999, genre |-> PyStr(SciFi), watched |-> FALSE,
       rating |-> PyFloat(75)],
      [title |-> PyStr(UpLower), year |-> 2009, genre |-> PyStr(<<>>), watched |-> TRUE,
       rating |-> PyNone],
      [title |-> PyStr(<<>>), year |-> 1999, genre |-> PyStr(SciFi), watched |-> FALSE,
       rating |-> PyNone] }

\* Titles passed to delete_movie_by_title.
DeleteTitles == {PyStr(UpUpper), PyStr(Heat)}

Row(t, y, g, w, r) ==
    [c \in ColumnNames |->
        CASE c = "Title" -> t [] c = "Year" -> y [] c = "Genre" -> g
          [] c = "Watched" -> w [] OTHER -> r]

CsvFile(cols, rows) == [exists |-> TRUE, cols |-> cols, rows |-> rows]

\* A file of two valid rows.
FileValid ==
    CsvFile(ColumnNames, << Row(Up, Y1999, SciFi, FalseText, <<"7", ".", "5">>),
                            Row(Heat, Y2009, SciFi, TrueText, <<>>) >>)
\* A row with an empty title cell, then a valid row with empty genre and rating.
FileNoTitle ==
    CsvFile(ColumnNames, << Row(<<>>, Y1999, SciFi, FalseText, <<>>),
                            Row(Up, Y2009, <<>>, TrueText, <<"8", ".", "0">>) >>)
\* A row whose year is no number, then a valid row.
FileBadYear ==
    CsvFile(ColumnNames, << Row(Heat, <<"a", "b", "c">>, SciFi, FalseText, <<>>),
                            Row(Up, Y2009, SciFi, FalseText, <<>>) >>)
\* A row with an empty year cell, then a valid row.
FileNoYear ==
    CsvFile(ColumnNames, << Row(Heat, <<>>, SciFi, FalseText, <<>>),
                            Row(Up, Y2009, SciFi, FalseText, <<>>) >>)
\* A row whose rating is above the range.
FileRating15 ==
    CsvFile(ColumnNames, << Row(Up, Y1999, SciFi, FalseText, <<"1", "5", ".", "0">>) >>)
\* A row whose rating is below the range.
FileRatingLow ==
    CsvFile(ColumnNames, << Row(Heat, Y1999, SciFi, TrueText, <<"-", "1", ".", "0">>) >>)
\* The file save_to_csv writes for the one movie titled "7".
FileNumericTitle ==
    CsvFile(ColumnNames, << Row(Seven, Y1999, SciFi, FalseText, <<>>) >>)
\* A file without a Year column.
FileNoYearColumn ==
    CsvFile(ColumnNames \ {"Year"}, << Row(Up, <<>>, SciFi, FalseText, <<>>) >>)

\* What movies.csv may hold when the program starts.
InitFiles ==
    {NoFile, FileValid, FileNoTitle, FileBadYear, FileNoYear, FileRating15, FileRatingLow,
     FileNumericTitle, FileNoYearColumn}

---------------------------------------------------------------------------
(* State *)

Lib == [movies |-> movies, unwatched |-> unwatched]

NoSave == [set |-> FALSE, val |-> <<>>, built |-> FALSE]

\* The record of an operation: its name, whether it raised, what it returned,
\* its argument, and the state it was called in.
Did(op, raised, ret, arg) ==
    [op |-> op, raised |-> raised, ret |-> ret, arg |-> arg,
     movies |-> movies, unwatched |-> unwatched, file |-> file, ent |-> ent,
     built |-> built]

\* my_library = MovieLibrary(), with movies.csv as it is found.
Init ==
    /\ movies = <<>>
    /\ unwatched = <<>>
    /\ file \in InitFiles
    /\ tree = <<>>
    /\ ent = <<>>
    /\ handle = "none"
    /\ built = TRUE
    /\ saved = NoSave
    /\ last = [op |-> "init", raised |-> FALSE, ret |-> 0, arg |-> <<>>,
               movies |-> <<>>, unwatched |-> <<>>, file |-> file, ent |-> <<>>,
               built |-> TRUE]

\* A rebinding of __movies leaves a caller's reference on the old list.
Rebound == IF handle = "alias" THEN "stale" ELSE handle

\* library.add_movie(Movie(...)): the constructor may raise before add_movie runs.
AddMovie(a) ==
    LET made == MovieInit(a.title, a.year, a.genre, a.watched, a.rating)
        lib  == AddMovieTo(Lib, made.movie)
    IN  /\ Len(movies) < MaxMovies
        /\ movies' = IF made.raised THEN movies ELSE lib.movies
        /\ unwatched' = IF made.raised THEN unwatched ELSE lib.unwatched
        /\ last' = Did("add", made.raised, 0, a)
        /\ UNCHANGED <<file, tree, ent, handle, built, saved>>

\* library.delete_movie_by_title(t)
DeleteByTitle(t) ==
    LET r == DeleteMovieByTitle(Lib, t)
    IN  /\ movies' = r.movies
        /\ unwatched' = r.unwatched
        /\ handle' = IF r.raised THEN handle ELSE Rebound
        /\ last' = Did("delete", r.raised, r.ret, t)
        /\ UNCHANGED <<file, tree, ent, built, saved>>

\* library.ensure_valid_ratings(): the Movie objects are changed in place, and
\* both lists hold the same objects.
EnsureRatings ==
    /\ movies' = EnsureValidRatings(movies)
    /\ unwatched' = EnsureValidRatings(unwatched)
    /\ built' = (built /\ movies' = movies)
    /\ last' = Did("ensure", FALSE, 0, <<>>)
    /\ UNCHANGED <<file, tree, ent, handle, saved>>

\* library.load_from_csv("movies.csv")
Load ==
    LET r == LoadFromCsv(file, Lib)
    IN  /\ Len(movies) + Len(file.rows) <= MaxMovies
        /\ movies' = r.movies
        /\ unwatched' = r.unwatched
        /\ built' = FALSE
        /\ last' = Did("load", r.raised, 0, <<>>)
        /\ UNCHANGED <<file, tree, ent, handle, saved>>

\* library.save_to_csv("movies.csv")
Save ==
    /\ file' = SaveToCsv(movies)
    /\ saved' = [set |-> TRUE, val |-> movies, built |-> built]
    /\ last' = Did("save", FALSE, 0, <<>>)
    /\ UNCHANGED <<movies, unwatched, tree, ent, handle, built>>

\* A fresh MovieLibrary() replaces the library.
NewLibrary ==
    /\ movies' = <<>>
    /\ unwatched' = <<>>
    /\ built' = TRUE
    /\ handle' = Rebound
    /\ last' = Did("new", FALSE, 0, <<>>)
    /\ UNCHANGED <<file, tree, ent, saved>>

\* The library in memory, filled by its callers and from the file found.
Next ==
    \/ \E a \in CtorArgs : AddMovie(a)
    \/ \E t \in DeleteTitles : DeleteByTitle(t)
    \/ EnsureRatings
    \/ Load
    \/ NewLibrary

Spec == Init /\ [][Next]_vars

\* The library and the file it writes and reads back, starting without a file.
InitCsv == Init /\ file = NoFile

NextCsv ==
    \/ \E a \in CtorArgs : AddMovie(a)
    \/ \E t \in DeleteTitles : DeleteByTitle(t)
    \/ Save
    \/ NewLibrary
    \/ Load

SpecCsv == InitCsv /\ [][NextCsv]_vars

---------------------------------------------------------------------------
(* A caller holding the list get_all_movies() returned *)

\* handle = library.get_all_movies(): the list object __movies itself.
GetAllMovies ==
    /\ handle' = "alias"
    /\ last' = Did("get_all", FALSE, 0, <<>>)
    /\ UNCHANGED <<movies, unwatched, file, tree, ent, built, saved>>

\* handle.append(Movie(...))
HandleAppend(a) ==
    LET made == MovieInit(a.title, a.year, a.genre, a.watched, a.rating)
    IN  /\ handle # "none"
        /\ Len(movies) < MaxMovies
        /\ movies' = IF handle = "alias" /\ ~made.raised
                     THEN Append(movies, made.movie) ELSE movies
        /\ built' = (built /\ movies' = movies)
        /\ last' = Did("handle_append", made.raised, 0, a)
        /\ UNCHANGED <<unwatched, file, tree, ent, handle, saved>>

\* del handle[i]
HandleRemove(i) ==
    /\ handle # "none"
    /\ i \in 1..Len(movies)
    /\ movies' = IF handle = "alias"
                 THEN SubSeq(movies, 1, i - 1) \o SubSeq(movies, i + 1, Len(movies))
                 ELSE movies
    /\ built' = (built /\ movies' = movies)
    /\ last' = Did("handle_remove", FALSE, 0, i)
    /\ UNCHANGED <<unwatched, file, tree, ent, handle, saved>>

\* handle.reverse()
HandleReverse ==
    /\ handle # "none"
    /\ movies' = IF handle = "alias"
                 THEN [i \in 1..Len(movies) |-> movies[Len(movies) + 1 - i]]
                 ELSE movies
    /\ built' = (built /\ movies' = movies)
    /\ last' = Did("handle_reverse", FALSE, 0, <<>>)
    /\ UNCHANGED <<unwatched, file, tree, ent, handle, saved>>

InitCaller == Init /\ file = NoFile

NextCaller ==
    \/ \E a \in CtorArgs : AddMovie(a)
    \/ \E t \in DeleteTitles : DeleteByTitle(t)
    \/ GetAllMovies
    \/ \E a \in CtorArgs : HandleAppend(a)
    \/ \E i \in 1..MaxMovies : HandleRemove(i)
    \/ HandleReverse

SpecCaller == InitCaller /\ [][NextCaller]_vars

---------------------------------------------------------------------------
(* MovieLogApp: the window's handlers *)

\* str.strip() of blanks
RECURSIVE Strip(_)
Strip(s) ==
    IF s = <<>> THEN s
    ELSE IF s[1] = " " THEN Strip(Tail(s))
    ELSE IF s[Len(s)] = " " THEN Strip(SubSeq(s, 1, Len(s) - 1))
    ELSE s

\* The Title cell of each row refresh_list inserts, as Tk holds it: a string.
TreeOf(ms) == [i \in 1..Len(ms) |-> StrOf(ms[i].title)]

\* add_movie without the test "rating > 10".
AppAddMovieNoUpperTest(f, lib, fl) ==
    LET title      == Strip(f.title)
        year_str   == Strip(f.year)
        genre      == Strip(f.genre)
        rating_str == Strip(f.rating)
        same(why)  == [outcome |-> why, movies |-> lib.movies,
                       unwatched |-> lib.unwatched, file |-> fl]
        rating     == IF rating_str = <<>> THEN PyNone ELSE FloatValue(PyStr(rating_str))
        made       == MovieInit(PyStr(title), IntOf(year_str), PyStr(genre), f.watched, rating)
        added      == AddMovieTo(lib, made.movie)
    IN  IF ~IntOk(year_str) THEN same("year_not_a_number")
        ELSE IF rating_str # <<>> /\ ~FloatOk(rating_str) THEN same("rating_not_a_number")
        ELSE IF Below(rating, RatingMin) THEN same("rating_negative")
        ELSE IF made.raised THEN same("error_adding")
        ELSE [outcome |-> "added", movies |-> added.movies,
              unwatched |-> added.unwatched, file |-> SaveToCsv(added.movies)]

\* MovieLogApp.add_movie on the entry fields f: what it printed or did, and the
\* library and file it leaves.
AppAddMovie(f, lib, fl) ==
    LET title      == Strip(f.title)
        year_str   == Strip(f.year)
        genre      == Strip(f.genre)
        rating_str == Strip(f.rating)
        same(why)  == [outcome |-> why, movies |-> lib.movies,
                       unwatched |-> lib.unwatched, file |-> fl]
        rating     == IF rating_str = <<>> THEN PyNone ELSE FloatValue(PyStr(rating_str))
        made       == MovieInit(PyStr(title), IntOf(year_str), PyStr(genre), f.watched, rating)
        added      == AddMovieTo(lib, made.movie)
    IN  IF ~IntOk(year_str) THEN same("year_not_a_number")
        ELSE IF rating_str # <<>> /\ ~FloatOk(rating_str) THEN same("rating_not_a_number")
        ELSE IF Below(rating, RatingMin) THEN same("rating_negative")
        ELSE IF Above(rating, RatingMax) THEN same("rating_above_10")
        ELSE IF made.raised THEN same("error_adding")
        ELSE [outcome |-> "added", movies |-> added.movies,
              unwatched |-> added.unwatched, file |-> SaveToCsv(added.movies)]

\* The for loop of delete_selected_movie over the selected rows' titles, from
\* the k-th on; an exception of delete_movie_by_title ends the handler.
RECURSIVE DeleteEach(_, _, _)
DeleteEach(titles, k, lib) ==
    IF k > Len(titles)
    THEN [raised |-> FALSE, movies |-> lib.movies, unwatched |-> lib.unwatched]
    ELSE LET r == DeleteMovieByTitle(lib, PyStr(titles[k]))
         IN  IF r.raised
             THEN [raised |-> TRUE, movies |-> r.movies, unwatched |-> r.unwatched]
             ELSE DeleteEach(titles, k + 1, [movies |-> r.movies, unwatched |-> r.unwatched])

\* The elements of the set sel of row numbers, in the tree's order.
RECURSIVE Ascending(_)
Ascending(sel) ==
    IF sel = {} THEN <<>>
    ELSE LET lo == CHOOSE i \in sel : \A j \in sel : i <= j
         IN  <<lo>> \o Ascending(sel \ {lo})

\* Entry fields the user may have typed before pressing Add Movie.
Form(t, y, g, r, w) == [title |-> t, year |-> y, genre |-> g, rating |-> r, watched |-> w]

Forms ==
    { Form(Up, Y1999, SciFi, <<"7", ".", "5">>, FALSE),
      Form(<<" ", "u", "p", " ">>, Y2009, <<>>, <<>>, TRUE),
      Form(Seven, Y1999, SciFi, NanText, FALSE),
      Form(<<" ">>, Y1999, SciFi, <<>>, FALSE),
      Form(Up, <<"a", "b", "c">>, SciFi, <<>>, FALSE),
      Form(Up, Y1999, SciFi, <<"a", "b", "c">>, FALSE),
      Form(Up, Y1999, SciFi, <<"1", "5">>, FALSE),
      Form(Up, Y1999, SciFi, <<"-", "1">>, FALSE) }

\* Add Movie pressed with the fields f.
ShellAdd(f) ==
    LET r == AppAddMovie(f, Lib, file)
    IN  /\ Len(movies) < MaxMovies
        /\ movies' = r.movies
        /\ unwatched' = r.unwatched
        /\ file' = r.file
        /\ tree' = IF r.outcome = "added" THEN TreeOf(r.movies) ELSE tree
        /\ saved' = IF r.outcome = "added"
                    THEN [set |-> TRUE, val |-> r.movies, built |-> built] ELSE saved
        /\ last' = Did("shell_add", FALSE, r.outcome, f)
        /\ UNCHANGED <<ent, handle, built>>

\* delete_selected_movie saving the unwatched list.
ShellDeleteSavesUnwatched(sel) ==
    LET titles == [k \in 1..Cardinality(sel) |-> tree[Ascending(sel)[k]]]
        r      == DeleteEach(titles, 1, Lib)
    IN  /\ sel # {}
        /\ movies' = r.movies
        /\ unwatched' = r.unwatched
        /\ file' = IF r.raised THEN file ELSE SaveToCsv(r.unwatched)
        /\ tree' = IF r.raised THEN tree ELSE TreeOf(r.movies)
        /\ saved' = IF r.raised THEN saved
                    ELSE [set |-> TRUE, val |-> r.movies, built |-> built]
        /\ last' = Did("shell_delete", r.raised, 0, titles)
        /\ UNCHANGED <<ent, handle, built>>

\* Delete Selected pressed with the rows sel selected.
ShellDelete(sel) ==
    LET titles == [k \in 1..Cardinality(sel) |-> tree[Ascending(sel)[k]]]
        r      == DeleteEach(titles, 1, Lib)
    IN  /\ sel # {}
        /\ movies' = r.movies
        /\ unwatched' = r.unwatched
        /\ file' = IF r.raised THEN file ELSE SaveToCsv(r.movies)
        /\ tree' = IF r.raised THEN tree ELSE TreeOf(r.movies)
        /\ saved' = IF r.raised THEN saved
                    ELSE [set |-> TRUE, val |-> r.movies, built |-> built]
        /\ last' = Did("shell_delete", r.raised, 0, titles)
        /\ UNCHANGED <<ent, handle, built>>

\* Delete Selected pressed with no row selected.
ShellDeleteNone ==
    /\ last' = Did("shell_delete_none", FALSE, 0, <<>>)
    /\ UNCHANGED <<movies, unwatched, file, tree, ent, handle, built, saved>>

---------------------------------------------------------------------------
(* A Movie object of its own *)

EntArgs ==
    { [title |-> PyStr(Up), year |-> 1999, genre |-> PyStr(<<>>), watched |-> FALSE,
       rating |-> PyFloat(150)],
      [title |-> PyStr(<<>>), year |-> 1999, genre |-> PyStr(SciFi), watched |-> FALSE,
       rating |-> PyNone] }

RatingValues == {PyNone, PyFloat(80), PyFloat(150), PyFloat(-10), PyNaN}

GenreValues == {PyStr(<<>>), PyStr(SciFi)}

\* ent = Movie(...)
EntNew(a) ==
    LET made == MovieInit(a.title, a.year, a.genre, a.watched, a.rating)
    IN  /\ ent' = IF made.raised THEN ent ELSE <<made.movie>>
        /\ last' = Did("ent_new", made.raised, 0, a)
        /\ UNCHANGED <<movies, unwatched, file, tree, handle, built, saved>>

\* ent.rating = v
EntSetRating(v) ==
    LET r == RatingSet(ent[1], v)
    IN  /\ ent # <<>>
        /\ ent' = <<r.movie>>
        /\ last' = Did("ent_set_rating", r.raised, 0, v)
        /\ UNCHANGED <<movies, unwatched, file, tree, handle, built, saved>>

\* ent.genre = v
EntSetGenre(v) ==
    /\ ent # <<>>
    /\ ent' = <<GenreSet(ent[1], v)>>
    /\ last' = Did("ent_set_genre", FALSE, 0, v)
    /\ UNCHANGED <<movies, unwatched, file, tree, handle, built, saved>>

TitleValues == {PyStr(<<>>), PyStr(Heat)}

WatchedValues == {PyInt(0), PyStr(Up)}

\* ent.title = v
EntSetTitle(v) ==
    LET r == TitleSet(ent[1], v)
    IN  /\ ent # <<>>
        /\ ent' = <<r.movie>>
        /\ last' = Did("ent_set_title", r.raised, 0, v)
        /\ UNCHANGED <<movies, unwatched, file, tree, handle, built, saved>>

\* ent.watched = v
EntSetWatched(v) ==
    /\ ent # <<>>
    /\ ent' = <<WatchedSet(ent[1], v)>>
    /\ last' = Did("ent_set_watched", FALSE, 0, v)
    /\ UNCHANGED <<movies, unwatched, file, tree, handle, built, saved>>

\* app = MovieLogApp(): the library is loaded from movies.csv and the tree is
\* filled; a file whose load raises leaves no application.
InitShell ==
    /\ file \in InitFiles
    /\ LET r == LoadFromCsv(file, [movies |-> <<>>, unwatched |-> <<>>])
       IN  /\ ~r.raised
           /\ movies = r.movies
           /\ unwatched = r.unwatched
           /\ tree = TreeOf(r.movies)
    /\ ent = <<>>
    /\ handle = "none"
    /\ built = FALSE
    /\ saved = NoSave
    /\ last = [op |-> "init", raised |-> FALSE, ret |-> 0, arg |-> <<>>,
               movies |-> <<>>, unwatched |-> <<>>, file |-> file, ent |-> <<>>,
               built |-> FALSE]

NextShell ==
    \/ \E f \in Forms : ShellAdd(f)
    \/ \E sel \in SUBSET (1..Len(tree)) : ShellDelete(sel)
    \/ ShellDeleteNone
    \/ \E a \in EntArgs : EntNew(a)
    \/ \E v \in RatingValues : EntSetRating(v)

SpecShell == InitShell /\ [][NextShell]_vars

\* No library and no window: Movie objects only.
InitMovie == Init /\ file = NoFile

NextMovie ==
    \/ \E a \in EntArgs : EntNew(a)
    \/ \E v \in RatingValues : EntSetRating(v)
    \/ \E v \in GenreValues : EntSetGenre(v)
    \/ \E v \in TitleValues : EntSetTitle(v)
    \/ \E v \in WatchedValues : EntSetWatched(v)

SpecMovie == InitMovie /\ [][NextMovie]_vars

---------------------------------------------------------------------------
(* Properties *)

\* The entries of ms that are not watched, in order.
RECURSIVE NotWatched(_)
NotWatched(ms) ==
    IF ms = <<>> THEN <<>>
    ELSE IF Head(ms).watched = FALSE THEN <<Head(ms)>> \o NotWatched(Tail(ms))
    ELSE NotWatched(Tail(ms))

\* C1: after any sequence of add_movie, delete_movie_by_title and load_from_csv
\* (and of the other library operations), get_unwatched_movies() is the
\* subsequence of get_all_movies() whose entries are not watched, in order.
C1_UnwatchedIsSubsequence ==
    /\ unwatched = NotWatched(movies)
    /\ Len(unwatched) = Cardinality({i \in 1..Len(movies) : ~movies[i].watched})

\* C1 witness: an add, delete or load left a library holding both a watched and
\* an unwatched entry.
C1_Witness ==
    /\ last.op \in {"add", "delete", "load"}
    /\ ~last.raised
    /\ movies # last.movies
    /\ Len(unwatched) >= 1
    /\ Len(unwatched) < Len(movies)

\* The title of m equals t ignoring letter case.
SameTitle(m, t) == m.title.t = "str" /\ Lower(m.title.s) = Lower(t.s)

\* The entries of ms whose title differs from t when case is ignored.
RECURSIVE Others(_, _)
Others(ms, t) ==
    IF ms = <<>> THEN <<>>
    ELSE IF SameTitle(Head(ms), t) THEN Others(Tail(ms), t)
    ELSE <<Head(ms)>> \o Others(Tail(ms), t)

\* C2: delete_movie_by_title(t) removes every entry whose title equals t ignoring
\* case, keeps the others in order, and returns the number removed (0 and no
\* change when none matches).
C2_DeleteRemovesAllMatches ==
    last.op = "delete" =>
        /\ ~last.raised
        /\ movies = Others(last.movies, last.arg)
        /\ last.ret = Len(last.movies) - Len(movies)

\* C3: nothing the caller does with the list get_all_movies() returned changes
\* the main collection or makes the unwatched view disagree with it.
C3_HandleIsReadOnly ==
    last.op \in {"handle_append", "handle_remove", "handle_reverse"} =>
        /\ movies = last.movies
        /\ unwatched = NotWatched(movies)

\* A rating is absent or lies in [0, 10].
RatingOk(v) ==
    v.t = "none" \/ (IsNumber(v) /\ 0 <= Tenths(v) /\ Tenths(v) <= 100)

\* C4: every Movie, in the library or outside it, has a rating that is absent
\* or lies in [0, 10].
C4_RatingsInRange ==
    /\ \A i \in 1..Len(ent) : RatingOk(ent[i].rating)
    /\ \A i \in 1..Len(movies) : RatingOk(movies[i].rating)

\* Equality of two Python values: numbers by value, nan equal to nothing.
PyEq(a, b) ==
    IF IsNumber(a) /\ IsNumber(b) THEN Tenths(a) = Tenths(b)
    ELSE a.t # "nan" /\ a = b

SameEntry(a, b) ==
    /\ PyEq(a.title, b.title)
    /\ a.year = b.year
    /\ PyEq(a.genre, b.genre)
    /\ a.watched = b.watched
    /\ PyEq(a.rating, b.rating)

\* C5: a catalog reached by add and delete, saved, then loaded into a fresh
\* library, comes back with the same length and equal fields, entry by entry.
C5_SaveLoadRoundTrip ==
    (last.op = "load" /\ last.movies = <<>> /\ saved.set /\ saved.built) =>
        /\ ~last.raised
        /\ Len(movies) = Len(saved.val)
        /\ \A i \in 1..Len(movies) : SameEntry(movies[i], saved.val[i])

\* The rows of f whose title cell is not empty.
TitledRows(f) == SelectSeq(f.rows, LAMBDA r : r["Title"] # <<>>)

\* The year C6 gives a row: the cell's number, 2000 when missing or unparseable.
YearPerClaim(f, r) ==
    IF "Year" \in f.cols /\ IntOk(r["Year"]) THEN IntOf(r["Year"]) ELSE DefaultYear

\* C6: load_from_csv never raises; it skips a row with an empty title, gives a
\* row with a missing or unparseable year the year 2000 and a row with an empty
\* rating cell an absent rating, and adds every other row in file order.
C6_LoadIsRowByRow ==
    (last.op = "load" /\ file.exists /\ "Title" \in file.cols) =>
        LET rows  == TitledRows(file)
            added == SubSeq(movies, Len(last.movies) + 1, Len(movies))
        IN  /\ ~last.raised
            /\ SubSeq(movies, 1, Len(last.movies)) = last.movies
            /\ Len(added) = Len(rows)
            /\ \A i \in 1..Len(added) :
                  /\ added[i].title = PyStr(rows[i]["Title"])
                  /\ added[i].year = YearPerClaim(file, rows[i])
                  /\ rows[i]["Rating"] = <<>> => added[i].rating = PyNone

\* The rating text is a number outside [0, 10].
RatingTextOutside(s) ==
    /\ s # NanText
    /\ FloatOk(s)
    /\ (TenthsOf(s) < 0 \/ TenthsOf(s) > 100)

\* The fields fail validation: empty title, year text that is no integer,
\* rating text that is no number, or a rating outside [0, 10].
FormInvalid(f) ==
    \/ Strip(f.title) = <<>>
    \/ ~IntOk(Strip(f.year))
    \/ (Strip(f.rating) # <<>> /\ ~FloatOk(Strip(f.rating)))
    \/ RatingTextOutside(Strip(f.rating))

C8_GenreNeverEmpty ==
    /\ \A i \in 1..Len(ent) : ent[i].genre # PyStr(<<>>)
    /\ \A i \in 1..Len(movies) : movies[i].genre # PyStr(<<>>)

\* C9: ensure_valid_ratings sets to absent every rating that is present and
\* outside [0, 10], and changes nothing else: same entries, same order, same
\* title, year, genre and watched, and the file untouched.
C9_EnsureResetsOnlyOutOfRange ==
    last.op = "ensure" =>
        /\ ~last.raised
        /\ file = last.file
        /\ Len(movies) = Len(last.movies)
        /\ \A i \in 1..Len(movies) :
              /\ movies[i].title = last.movies[i].title
              /\ movies[i].year = last.movies[i].year
              /\ movies[i].genre = last.movies[i].genre
              /\ movies[i].watched = last.movies[i].watched
              /\ movies[i].rating =
                    IF IsNumber(last.movies[i].rating) /\ ~RatingOk(last.movies[i].rating)
                    THEN PyNone ELSE last.movies[i].rating

\* C9 witness: the pass reset a rating outside the range and kept one inside it.
C9_Witness ==
    /\ last.op = "ensure"
    /\ \E i \in 1..Len(movies) :
          ~RatingOk(last.movies[i].rating) /\ movies[i].rating = PyNone
    /\ \E i \in 1..Len(movies) :
          IsNumber(last.movies[i].rating) /\ movies[i].rating = last.movies[i].rating

\* The text of a value in the file: nothing for a missing value.
Shown(v) == IF IsNull(v) THEN <<>> ELSE StrOf(v)

\* Row r of the file is the movie m.
RowHolds(r, m) ==
    /\ r["Title"] = Shown(m.title)
    /\ r["Year"] = IntText(m.year)
    /\ r["Genre"] = Shown(m.genre)
    /\ r["Watched"] = (IF m.watched THEN TrueText ELSE FalseText)
    /\ r["Rating"] = Shown(m.rating)

\* C10: after a completed Add Movie or Delete Selected the file holds the main
\* collection, entry for entry in order.
C10_FileHoldsCollection ==
    ((last.op = "shell_add" /\ last.ret = "added")
        \/ (last.op = "shell_delete" /\ ~last.raised)) =>
        /\ file.exists
        /\ Len(file.rows) = Len(movies)
        /\ \A i \in 1..Len(movies) : RowHolds(file.rows[i], movies[i])

\* C10 witness: Delete Selected removed an entry and left a collection that
\* differs from its unwatched view.
C10_Witness ==
    /\ last.op = "shell_delete"
    /\ ~last.raised
    /\ Len(movies) < Len(last.movies)
    /\ Len(movies) >= 1
    /\ Len(unwatched) < Len(movies)

====
